---- MODULE Spec2Model ----
(***************************************************************************)
(* Model of scripts/stream_receiver.py: the framed-stream receiver of the  *)
(* supercamera TCP sender.  The receiver reads a 28-byte big-endian header *)
(* with recv_exact, validates it with parse_header, reads payload_size     *)
(* bytes with recv_exact, hands the payload to the JPEG decoder and shows  *)
(* the image; main() turns exceptions into the exit status.                *)
(*                                                                         *)
(* A Python bytes value is modelled as its run-length encoding: a sequence *)
(* of runs <<byte, count>>, count >= 1, adjacent runs holding different    *)
(* bytes.  Equal byte strings have equal encodings, so = on encodings is   *)
(* == on bytes, and a payload of MAX_PAYLOAD_SIZE bytes stays small.       *)
(***************************************************************************)
EXTENDS Integers, Sequences, FiniteSets, TLC

\* -------------------------------------------------------------------- state
VARIABLES
    sent,          \* the frames the peer puts on the wire
    wire,          \* the bytes the peer puts on the wire
    split,         \* the sizes of the delivery segments (repeating)
    segIdx,        \* index in split of the current segment
    segLeft,       \* bytes of the current segment not yet received
    pos,           \* bytes received from the socket so far
    log_every,     \* run_receiver's argument
    pc,            \* where the receiver is
    phase,         \* which recv_exact call is running: "header" or "payload"
    size,          \* recv_exact: its argument
    remaining,     \* recv_exact: bytes still outstanding
    chunks,        \* recv_exact: the chunks received in this call
    call_start,    \* pos when the running recv_exact call began
    reqs,          \* the sock.recv calls of the current decode step
    frame_start,   \* pos when the current decode step began
    raw_header, source_id, frame_id, timestamp_us, payload_size, payload,
    frame_count,   \* frames displayed
    decoded,       \* the frames the decode steps have produced, in order
    stdout,        \* warnings and statistics lines printed
    exc,           \* the exception propagating, or the one main() caught
    exit_status,   \* main's return value, -1 while running
    stderr         \* the "Receiver error" line, if any

transport == <<sent, wire, split, log_every>>
socket == <<segIdx, segLeft, pos>>
recv_locals == <<phase, size, remaining, chunks, call_start>>
header_locals == <<source_id, frame_id, timestamp_us, payload_size>>
outcome == <<exc, exit_status, stderr>>
vars == <<sent, wire, split, segIdx, segLeft, pos, log_every, pc, phase, size,
          remaining, chunks, call_start, reqs, frame_start, raw_header, source_id,
          frame_id, timestamp_us, payload_size, payload, frame_count, decoded,
          stdout, exc, exit_status, stderr>>

\* ------------------------------------------------------------------ bounds
\* Most frames the peer puts on the wire in one run.
MaxFrames == 2
\* Most delivery segments the transport may cut one wire into.
MaxSegments == 160

\* ------------------------------------------------------- bytes (run-length)
Min2(a, b) == IF a <= b THEN a ELSE b

RECURSIVE BLen(_)
\* len(b)
BLen(s) == IF s = <<>> THEN 0 ELSE s[1][2] + BLen(Tail(s))

\* a + b
BCat(a, b) ==
    IF a = <<>> THEN b
    ELSE IF b = <<>> THEN a
    ELSE LET la == a[Len(a)]
             hb == b[1]
         IN  IF la[1] = hb[1]
             THEN SubSeq(a, 1, Len(a) - 1) \o << <<la[1], la[2] + hb[2]>> >> \o Tail(b)
             ELSE a \o b

RECURSIVE BTake(_, _)
\* b[:k]
BTake(s, k) ==
    IF k <= 0 \/ s = <<>> THEN <<>>
    ELSE IF s[1][2] <= k THEN <<s[1]>> \o BTake(Tail(s), k - s[1][2])
    ELSE << <<s[1][1], k>> >>

RECURSIVE BDrop(_, _)
\* b[k:]
BDrop(s, k) ==
    IF k <= 0 \/ s = <<>> THEN s
    ELSE IF s[1][2] <= k THEN BDrop(Tail(s), k - s[1][2])
    ELSE << <<s[1][1], s[1][2] - k>> >> \o Tail(s)

\* b[from : from + n]
BSlice(s, from, n) == BTake(BDrop(s, from), n)

RECURSIVE BBytes(_)
\* list(b): the bytes one by one (used on header-sized values only)
BBytes(s) ==
    IF s = <<>> THEN <<>>
    ELSE [i \in 1..s[1][2] |-> s[1][1]] \o BBytes(Tail(s))

RECURSIVE FromBytes(_)
\* bytes(list)
FromBytes(q) ==
    IF q = <<>> THEN <<>>
    ELSE BCat(FromBytes(SubSeq(q, 1, Len(q) - 1)), << <<q[Len(q)], 1>> >>)

\* ---------------------------------------------------------------- constants
STREAM_MAGIC == 1196643907
STREAM_VERSION == 1
STREAM_CODEC_JPEG == 1
\* "!IBBHHHIQI": network byte order, the width in bytes of each field
HEADER_FORMAT == <<4, 1, 1, 2, 2, 2, 4, 8, 4>>

RECURSIVE SumSeq(_)
SumSeq(q) == IF q = <<>> THEN 0 ELSE q[1] + SumSeq(Tail(q))

\* struct.calcsize(HEADER_FORMAT)
HEADER_SIZE == SumSeq(HEADER_FORMAT)
MAX_PAYLOAD_SIZE == 1024 * 1024

\* ------------------------------------------------------------ struct.unpack
RECURSIVE BigEndian(_)
\* the unsigned integer a big-endian byte list stands for
BigEndian(q) ==
    IF q = <<>> THEN 0
    ELSE BigEndian(SubSeq(q, 1, Len(q) - 1)) * 256 + q[Len(q)]

\* offset (0-based) of field i of the format
FieldOffset(fmt, i) == SumSeq(SubSeq(fmt, 1, i - 1))

StructError == <<"struct.error">>

\* struct.unpack(fmt, raw): one unsigned integer per field, or struct.error
\* when raw is not exactly calcsize(fmt) bytes long
unpack(fmt, raw) ==
    IF BLen(raw) # SumSeq(fmt) THEN StructError
    ELSE LET b == BBytes(raw)
         IN  [i \in 1..Len(fmt) |->
                BigEndian(SubSeq(b, FieldOffset(fmt, i) + 1, FieldOffset(fmt, i) + fmt[i]))]

\* -------------------------------------------------------------- exceptions
NoExc == [type |-> "None", msg |-> "", value |-> 0]
Raise(t, m, v) == [type |-> t, msg |-> m, value |-> v]

\* ------------------------------------------------------------- parse_header
\* mutant: frame_id and timestamp_us taken from each other's field
Accept_swapped(f) ==
    [ok |-> TRUE, exc |-> NoExc,
     source_id |-> f[5], frame_id |-> f[8], timestamp_us |-> f[7], payload_size |-> f[9]]

Accept(f) ==
    [ok |-> TRUE, exc |-> NoExc,
     source_id |-> f[5], frame_id |-> f[7], timestamp_us |-> f[8], payload_size |-> f[9]]
Reject(e) ==
    [ok |-> FALSE, exc |-> e,
     source_id |-> 0, frame_id |-> 0, timestamp_us |-> 0, payload_size |-> 0]

\* mutant: the size bound excludes MAX_PAYLOAD_SIZE itself
parse_header_size_ge(raw) ==
    LET f == unpack(HEADER_FORMAT, raw)
    IN  IF f = StructError THEN Reject(Raise("struct.error", "unpack requires a buffer of 28 bytes", BLen(raw)))
        ELSE IF f[1] # STREAM_MAGIC THEN Reject(Raise("ValueError", "bad magic", f[1]))
        ELSE IF f[2] # STREAM_VERSION THEN Reject(Raise("ValueError", "unsupported version", f[2]))
        ELSE IF f[3] # STREAM_CODEC_JPEG THEN Reject(Raise("ValueError", "unsupported codec", f[3]))
        ELSE IF f[9] >= MAX_PAYLOAD_SIZE THEN Reject(Raise("ValueError", "payload too large", f[9]))
        ELSE Accept(f)

\* mutant: the size bound is not checked
parse_header_no_size_check(raw) ==
    LET f == unpack(HEADER_FORMAT, raw)
    IN  IF f = StructError THEN Reject(Raise("struct.error", "unpack requires a buffer of 28 bytes", BLen(raw)))
        ELSE IF f[1] # STREAM_MAGIC THEN Reject(Raise("ValueError", "bad magic", f[1]))
        ELSE IF f[2] # STREAM_VERSION THEN Reject(Raise("ValueError", "unsupported version", f[2]))
        ELSE IF f[3] # STREAM_CODEC_JPEG THEN Reject(Raise("ValueError", "unsupported codec", f[3]))
        ELSE Accept(f)

\* mutant: the magic is not checked
parse_header_no_magic_check(raw) ==
    LET f == unpack(HEADER_FORMAT, raw)
    IN  IF f = StructError THEN Reject(Raise("struct.error", "unpack requires a buffer of 28 bytes", BLen(raw)))
        ELSE IF f[2] # STREAM_VERSION THEN Reject(Raise("ValueError", "unsupported version", f[2]))
        ELSE IF f[3] # STREAM_CODEC_JPEG THEN Reject(Raise("ValueError", "unsupported codec", f[3]))
        ELSE IF f[9] > MAX_PAYLOAD_SIZE THEN Reject(Raise("ValueError", "payload too large", f[9]))
        ELSE Accept(f)

\* mutant: the size bound is checked first
parse_header_size_first(raw) ==
    LET f == unpack(HEADER_FORMAT, raw)
    IN  IF f = StructError THEN Reject(Raise("struct.error", "unpack requires a buffer of 28 bytes", BLen(raw)))
        ELSE IF f[9] > MAX_PAYLOAD_SIZE THEN Reject(Raise("ValueError", "payload too large", f[9]))
        ELSE IF f[1] # STREAM_MAGIC THEN Reject(Raise("ValueError", "bad magic", f[1]))
        ELSE IF f[2] # STREAM_VERSION THEN Reject(Raise("ValueError", "unsupported version", f[2]))
        ELSE IF f[3] # STREAM_CODEC_JPEG THEN Reject(Raise("ValueError", "unsupported codec", f[3]))
        ELSE Accept(f)

\* mutant: a frame_id that does not increase is rejected
parse_header_monotonic(raw) ==
    LET f == unpack(HEADER_FORMAT, raw)
    IN  IF f = StructError THEN Reject(Raise("struct.error", "unpack requires a buffer of 28 bytes", BLen(raw)))
        ELSE IF f[1] # STREAM_MAGIC THEN Reject(Raise("ValueError", "bad magic", f[1]))
        ELSE IF f[2] # STREAM_VERSION THEN Reject(Raise("ValueError", "unsupported version", f[2]))
        ELSE IF f[3] # STREAM_CODEC_JPEG THEN Reject(Raise("ValueError", "unsupported codec", f[3]))
        ELSE IF f[9] > MAX_PAYLOAD_SIZE THEN Reject(Raise("ValueError", "payload too large", f[9]))
        ELSE IF decoded # <<>> /\ f[7] <= frame_id THEN Reject(Raise("ValueError", "frame out of order", f[7]))
        ELSE Accept(f)

\* mutant: flags and reserved must be zero
parse_header_reserved_zero(raw) ==
    LET f == unpack(HEADER_FORMAT, raw)
    IN  IF f = StructError THEN Reject(Raise("struct.error", "unpack requires a buffer of 28 bytes", BLen(raw)))
        ELSE IF f[1] # STREAM_MAGIC THEN Reject(Raise("ValueError", "bad magic", f[1]))
        ELSE IF f[2] # STREAM_VERSION THEN Reject(Raise("ValueError", "unsupported version", f[2]))
        ELSE IF f[3] # STREAM_CODEC_JPEG THEN Reject(Raise("ValueError", "unsupported codec", f[3]))
        ELSE IF f[4] # 0 \/ f[6] # 0 THEN Reject(Raise("ValueError", "reserved bits set", f[4]))
        ELSE IF f[9] > MAX_PAYLOAD_SIZE THEN Reject(Raise("ValueError", "payload too large", f[9]))
        ELSE Accept(f)

\* parse_header(raw): (source_id, frame_id, timestamp_us, payload_size),
\* or the exception it raises; the checks in the order of the source
parse_header(raw) ==
    LET f == unpack(HEADER_FORMAT, raw)
    IN  IF f = StructError THEN Reject(Raise("struct.error", "unpack requires a buffer of 28 bytes", BLen(raw)))
        ELSE IF f[1] # STREAM_MAGIC THEN Reject(Raise("ValueError", "bad magic", f[1]))
        ELSE IF f[2] # STREAM_VERSION THEN Reject(Raise("ValueError", "unsupported version", f[2]))
        ELSE IF f[3] # STREAM_CODEC_JPEG THEN Reject(Raise("ValueError", "unsupported codec", f[3]))
        ELSE IF f[9] > MAX_PAYLOAD_SIZE THEN Reject(Raise("ValueError", "payload too large", f[9]))
        ELSE Accept(f)

\* ------------------------------------------------------------------- sender
\* The peer's side of the wire format: the header fields packed big-endian in
\* the order of HEADER_FORMAT, then the bytes that follow the header.
RECURSIVE ToBigEndian(_, _)
ToBigEndian(v, n) ==
    IF n = 0 THEN <<>> ELSE Append(ToBigEndian(v \div 256, n - 1), v % 256)

pack(h) ==
    FromBytes(ToBigEndian(h.magic, 4) \o ToBigEndian(h.version, 1)
              \o ToBigEndian(h.codec, 1) \o ToBigEndian(h.flags, 2)
              \o ToBigEndian(h.source_id, 2) \o ToBigEndian(h.reserved, 2)
              \o ToBigEndian(h.frame_id, 4) \o ToBigEndian(h.timestamp_us, 8)
              \o ToBigEndian(h.payload_size, 4))

RECURSIVE Wire(_)
\* the byte stream of a sequence of frames, each header followed by its body
Wire(q) ==
    IF q = <<>> THEN <<>>
    ELSE BCat(Wire(SubSeq(q, 1, Len(q) - 1)), BCat(pack(q[Len(q)]), q[Len(q)].body))

\* ------------------------------------------------------------- test frames
MkFrame(m, v, c, fl, src, res, fid, ts, sz, body) ==
    [magic |-> m, version |-> v, codec |-> c, flags |-> fl, source_id |-> src,
     reserved |-> res, frame_id |-> fid, timestamp_us |-> ts, payload_size |-> sz,
     body |-> body]

\* bytes that follow a header the receiver must reject
Junk == << <<170, 1>>, <<187, 1>> >>

FrameEmpty == MkFrame(STREAM_MAGIC, 1, 1, 0, 0, 0, 7, 1000000, 0, <<>>)
FrameOne   == MkFrame(STREAM_MAGIC, 1, 1, 0, 1, 0, 8, 1000001, 1, << <<0, 1>> >>)
\* a payload that spells the magic
FrameGSVC  == MkFrame(STREAM_MAGIC, 1, 1, 32769, 258, 42405, 3, 16909060, 4,
                      << <<71, 1>>, <<83, 1>>, <<86, 1>>, <<67, 1>> >>)
\* a payload of exactly MAX_PAYLOAD_SIZE bytes
FrameMax   == MkFrame(STREAM_MAGIC, 1, 1, 0, 65535, 0, 7, 2147483647, MAX_PAYLOAD_SIZE,
                      << <<255, MAX_PAYLOAD_SIZE - 1>>, <<217, 1>> >>)

ValidFrames == {FrameEmpty, FrameOne, FrameGSVC, FrameMax}

IsValid(h) ==
    /\ h.magic = STREAM_MAGIC
    /\ h.version = STREAM_VERSION
    /\ h.codec = STREAM_CODEC_JPEG
    /\ h.payload_size <= MAX_PAYLOAD_SIZE

\* every combination of a right or wrong magic, version, codec and size; the
\* wrong magics are "GSVD" (1196643908) and "CVSG" (1129730887), the oversize
\* payloads MAX_PAYLOAD_SIZE + 1 and 2147483647, the largest 31-bit value
InvalidFrames ==
    { h \in { MkFrame(m, v, c, 32769, 258, 42405, 9, 16909060, sz, Junk) :
                m \in {STREAM_MAGIC, 1196643908}, v \in {1, 2}, c \in {1, 0},
                sz \in {2, MAX_PAYLOAD_SIZE + 1} } : ~IsValid(h) }
    \cup { MkFrame(1129730887, 1, 1, 0, 0, 0, 7, 1000000, 0, Junk),
           MkFrame(STREAM_MAGIC, 0, 1, 0, 0, 0, 7, 1000000, 0, Junk),
           MkFrame(STREAM_MAGIC, 1, 2, 0, 0, 0, 7, 1000000, 0, Junk),
           MkFrame(STREAM_MAGIC, 1, 1, 0, 0, 0, 7, 1000000, 2147483647, Junk) }

AllFrames == ValidFrames \cup InvalidFrames
\* a wrong magic before two junk bytes: skipping it would find the next header
FrameBadMagic == MkFrame(1196643908, 1, 1, 32769, 258, 42405, 9, 16909060, 2, Junk)
\* frames that may be followed by another frame
LeadFrames == {FrameEmpty, FrameGSVC, FrameMax, FrameBadMagic}
\* frames that may follow another frame
TailFrames ==
    {FrameEmpty, FrameGSVC, FrameMax, FrameBadMagic,
     MkFrame(STREAM_MAGIC, 1, 1, 32769, 258, 42405, 9, 16909060, MAX_PAYLOAD_SIZE + 1, Junk)}

FrameSeqs ==
    UNION { { q \in [1..n -> AllFrames] :
                /\ \A i \in 1..(n - 1) : q[i] \in LeadFrames
                /\ n > 1 => q[n] \in TailFrames } : n \in 1..MaxFrames }

\* ---------------------------------------------------------------- transport
\* The transport cuts the wire into delivery segments whose sizes repeat a
\* pattern; one sock.recv returns bytes of the current segment only.
Patterns == { <<1>>, <<5>>, <<29>>, <<3, 40>>, <<700000, 29>>, <<2097152>> }

SegmentsNeeded(w, p) == ((BLen(w) \div SumSeq(p)) + 1) * Len(p)
Splits(w) == { p \in Patterns : SegmentsNeeded(w, p) <= MaxSegments }

\* --log-every
LogEveryValues == {-1, 0, 1, 2}

Init ==
    /\ sent \in FrameSeqs
    /\ wire = Wire(sent)
    /\ split \in Splits(wire)
    /\ segIdx = 1
    /\ segLeft = split[1]
    /\ pos = 0
    /\ log_every \in LogEveryValues
    /\ pc = "loop"
    /\ phase = "none"
    /\ size = 0
    /\ remaining = 0
    /\ chunks = <<>>
    /\ call_start = 0
    /\ reqs = <<>>
    /\ frame_start = 0
    /\ raw_header = <<>>
    /\ source_id = 0
    /\ frame_id = 0
    /\ timestamp_us = 0
    /\ payload_size = 0
    /\ payload = <<>>
    /\ frame_count = 0
    /\ decoded = <<>>
    /\ stdout = <<>>
    /\ exc = NoExc
    /\ exit_status = -1
    /\ stderr = NoExc

\* ---------------------------------------------------------------- sock.recv
\* sock.recv(bufsize) when data is there: at most bufsize bytes, and no more
\* than the current segment and the wire hold
sock_recv(bufsize) ==
    BSlice(wire, pos, Min2(bufsize, Min2(segLeft, BLen(wire) - pos)))

\* no received-but-unread byte is buffered: the receiver waits for the peer
AtSegmentStart == segLeft = split[segIdx]

\* the socket after k bytes were taken from it
Consume(k) ==
    /\ pos' = pos + k
    /\ IF k >= segLeft
       THEN /\ segIdx' = (segIdx % Len(split)) + 1
            /\ segLeft' = split[(segIdx % Len(split)) + 1]
       ELSE /\ segIdx' = segIdx
            /\ segLeft' = segLeft - k

\* --------------------------------------------------------------- recv_exact
\* mutant: every sock.recv asks for the whole size
recv_request_full(sz, rem) == sz

\* line 24: the byte count asked of sock.recv
recv_request(sz, rem) == rem

\* mutant: every chunk is taken for the whole buffer
next_remaining_single_read(rem, data) == 0

\* mutant: the bytes received are not subtracted
next_remaining_stuck(rem, data) == rem

\* line 28: remaining -= len(data)
next_remaining(rem, data) == rem - BLen(data)

RECURSIVE join_reversed(_)
\* mutant: the chunks are joined last first
join_reversed(cs) ==
    IF cs = <<>> THEN <<>> ELSE BCat(join_reversed(Tail(cs)), cs[1])

RECURSIVE join(_)
\* line 29: b"".join(chunks)
join(cs) ==
    IF cs = <<>> THEN <<>> ELSE BCat(cs[1], join(Tail(cs)))

\* line 26
PeerClosed == Raise("ConnectionError", "peer closed the connection", 0)

\* recv_exact(sock, n) is entered: lines 21-22
CallRecvExact(ph, n) ==
    /\ phase' = ph
    /\ size' = n
    /\ remaining' = n
    /\ chunks' = <<>>
    /\ call_start' = pos
    /\ pc' = "recv_exact"

\* ------------------------------------------------------------- run_receiver
\* lines 57-58: the loop calls recv_exact(sock, HEADER_SIZE)
CallRecvHeader ==
    /\ pc = "loop"
    /\ CallRecvExact("header", HEADER_SIZE)
    /\ frame_start' = pos
    /\ reqs' = <<>>
    /\ UNCHANGED <<transport, socket, raw_header, header_locals, payload,
                   frame_count, decoded, stdout, outcome>>

\* lines 23-28: one sock.recv that returns data
RecvData ==
    /\ pc = "recv_exact"
    /\ remaining > 0
    /\ pos < BLen(wire)
    /\ LET req == recv_request(size, remaining)
           data == sock_recv(req)
       IN  /\ chunks' = Append(chunks, data)
           /\ remaining' = next_remaining(remaining, data)
           /\ Consume(BLen(data))
           /\ reqs' = Append(reqs, [phase |-> phase, requested |-> req, got |-> BLen(data)])
    /\ UNCHANGED <<transport, pc, phase, size, call_start, frame_start, raw_header,
                   header_locals, payload, frame_count, decoded, stdout, outcome>>

\* mutant: a closed stream ends the loop and the bytes read so far are returned
RecvClosedReturnsPartial ==
    /\ pc = "recv_exact"
    /\ remaining > 0
    /\ AtSegmentStart \/ pos >= BLen(wire)
    /\ reqs' = Append(reqs, [phase |-> phase, requested |-> recv_request(size, remaining), got |-> 0])
    /\ remaining' = 0
    /\ UNCHANGED <<transport, socket, pc, phase, size, chunks, call_start, frame_start,
                   raw_header, header_locals, payload, frame_count, decoded, stdout,
                   outcome>>

\* mutant: recv_exact reads once before it tests remaining (a do-while loop)
RecvClosedReadsFirst ==
    /\ pc = "recv_exact"
    /\ remaining > 0 \/ (size = 0 /\ reqs # <<>> /\ reqs[Len(reqs)].phase # phase)
    /\ AtSegmentStart \/ pos >= BLen(wire)
    /\ reqs' = Append(reqs, [phase |-> phase, requested |-> recv_request(size, remaining), got |-> 0])
    /\ exc' = PeerClosed
    /\ pc' = "except"
    /\ UNCHANGED <<transport, socket, recv_locals, frame_start, raw_header, header_locals,
                   payload, frame_count, decoded, stdout, exit_status, stderr>>

\* mutant: the first empty read is retried, only the second one raises
RecvClosedRetriesOnce ==
    /\ pc = "recv_exact"
    /\ remaining > 0
    /\ AtSegmentStart \/ pos >= BLen(wire)
    /\ reqs' = Append(reqs, [phase |-> phase, requested |-> recv_request(size, remaining), got |-> 0])
    /\ IF reqs # <<>> /\ reqs[Len(reqs)].got = 0
          THEN exc' = PeerClosed /\ pc' = "except"
          ELSE UNCHANGED <<exc, pc>>
    /\ UNCHANGED <<transport, socket, recv_locals, frame_start, raw_header, header_locals,
                   payload, frame_count, decoded, stdout, exit_status, stderr>>

\* lines 23-26: sock.recv returns b"": the peer closed after pos bytes
RecvClosed ==
    /\ pc = "recv_exact"
    /\ remaining > 0
    /\ AtSegmentStart \/ pos >= BLen(wire)
    /\ reqs' = Append(reqs, [phase |-> phase, requested |-> recv_request(size, remaining), got |-> 0])
    /\ exc' = PeerClosed
    /\ pc' = "except"
    /\ UNCHANGED <<transport, socket, recv_locals, frame_start, raw_header, header_locals,
                   payload, frame_count, decoded, stdout, exit_status, stderr>>

\* line 24: sock.recv raises OSError (the connection was reset)
RecvError ==
    /\ pc = "recv_exact"
    /\ remaining > 0
    /\ AtSegmentStart \/ pos >= BLen(wire)
    /\ reqs' = Append(reqs, [phase |-> phase, requested |-> recv_request(size, remaining), got |-> -1])
    /\ exc' = Raise("OSError", "connection reset by peer", 104)
    /\ pc' = "except"
    /\ UNCHANGED <<transport, socket, recv_locals, frame_start, raw_header, header_locals,
                   payload, frame_count, decoded, stdout, exit_status, stderr>>

\* lines 23, 29, 58: recv_exact returns the header
RecvReturnHeader ==
    /\ pc = "recv_exact"
    /\ ~(remaining > 0)
    /\ phase = "header"
    /\ raw_header' = join(chunks)
    /\ pc' = "parse_header"
    /\ UNCHANGED <<transport, socket, recv_locals, reqs, frame_start, header_locals,
                   payload, frame_count, decoded, stdout, outcome>>

\* lines 23, 29, 60: recv_exact returns the payload: the decode step is complete
RecvReturnPayload ==
    /\ pc = "recv_exact"
    /\ ~(remaining > 0)
    /\ phase = "payload"
    /\ payload' = join(chunks)
    /\ decoded' = Append(decoded, [source_id |-> source_id, frame_id |-> frame_id,
                                   timestamp_us |-> timestamp_us, payload |-> join(chunks)])
    /\ pc' = "imdecode"
    /\ UNCHANGED <<transport, socket, recv_locals, reqs, frame_start, raw_header,
                   header_locals, frame_count, stdout, outcome>>

\* lines 59-60: the header is accepted and recv_exact(sock, payload_size) called
ParseHeaderOk ==
    /\ pc = "parse_header"
    /\ LET r == parse_header(raw_header)
       IN  /\ r.ok
           /\ source_id' = r.source_id
           /\ frame_id' = r.frame_id
           /\ timestamp_us' = r.timestamp_us
           /\ payload_size' = r.payload_size
           /\ CallRecvExact("payload", r.payload_size)
    /\ UNCHANGED <<transport, socket, reqs, frame_start, raw_header, payload,
                   frame_count, decoded, stdout, outcome>>

\* mutant: a rejected header is skipped and the loop goes on to the next read
ParseHeaderRaisesResync ==
    /\ pc = "parse_header"
    /\ LET r == parse_header(raw_header)
       IN  /\ ~r.ok
           /\ exc' = r.exc
    /\ pc' = "loop"
    /\ UNCHANGED <<transport, socket, recv_locals, reqs, frame_start, raw_header,
                   header_locals, payload, frame_count, decoded, stdout, exit_status,
                   stderr>>

\* lines 59, 37-44: parse_header raises
ParseHeaderRaises ==
    /\ pc = "parse_header"
    /\ LET r == parse_header(raw_header)
       IN  /\ ~r.ok
           /\ exc' = r.exc
    /\ pc' = "except"
    /\ UNCHANGED <<transport, socket, recv_locals, reqs, frame_start, raw_header,
                   header_locals, payload, frame_count, decoded, stdout, exit_status,
                   stderr>>

\* lines 62-66: the codec returns None: a warning, and the loop continues
ImdecodeFails ==
    /\ pc = "imdecode"
    /\ stdout' = Append(stdout, <<"Warning: failed to decode JPEG", source_id, frame_id>>)
    /\ pc' = "loop"
    /\ UNCHANGED <<transport, socket, recv_locals, reqs, frame_start, raw_header,
                   header_locals, payload, frame_count, decoded, outcome>>

\* line 63: the codec raises cv2.error on an empty buffer (some builds of it)
ImdecodeRaises ==
    /\ pc = "imdecode"
    /\ payload = <<>>
    /\ exc' = Raise("cv2.error", "imdecode: empty buffer", 0)
    /\ pc' = "except"
    /\ UNCHANGED <<transport, socket, recv_locals, reqs, frame_start, raw_header,
                   header_locals, payload, frame_count, decoded, stdout, exit_status,
                   stderr>>

\* cv2.waitKey(1) & 0xFF: no key (255), 'a', 'q', ESC
Keys == {255, 97, 113, 27}
QuitKeys == {113, 27}

\* lines 68-72, 83-84: the image is shown and a quit key ends the loop
ShowQuit ==
    /\ pc = "imdecode"
    /\ payload # <<>>
    /\ \E key \in Keys : key \in QuitKeys
    /\ exit_status' = 0
    /\ pc' = "done"
    /\ UNCHANGED <<transport, socket, recv_locals, reqs, frame_start, raw_header,
                   header_locals, payload, frame_count, decoded, stdout, exc, stderr>>

\* mutant: the test runs on the count before the frame is counted
should_log_before_increment(count, every) == every > 0 /\ (count - 1) % every = 0

\* line 75: log_every > 0 and frame_count % log_every == 0
should_log(count, every) == every > 0 /\ count % every = 0

\* lines 68-81: the image is shown, counted and (every log_every frames) logged
ShowNext ==
    /\ pc = "imdecode"
    /\ payload # <<>>
    /\ \E key \in Keys : key \notin QuitKeys
    /\ frame_count' = frame_count + 1
    /\ stdout' = IF should_log(frame_count + 1, log_every)
                 THEN Append(stdout, <<"frames", frame_count + 1, source_id, frame_id,
                                       timestamp_us>>)
                 ELSE stdout
    /\ pc' = "loop"
    /\ UNCHANGED <<transport, socket, recv_locals, reqs, frame_start, raw_header,
                   header_locals, payload, decoded, outcome>>

\* --------------------------------------------------------------------- main
Caught == {"ConnectionError", "OSError", "ValueError"}

\* mutant: only ValueError is caught
main_except_value_error_only(e) ==
    IF e.type = "ValueError"
    THEN [status |-> 1, stderr |-> Raise("Receiver error", e.msg, e.value)]
    ELSE [status |-> 1, stderr |-> Raise("Traceback", e.type, e.value)]

\* lines 125-128: what main() reports for an exception of run_receiver; any
\* other exception leaves the interpreter with a traceback and status 1
main_except(e) ==
    IF e.type \in Caught
    THEN [status |-> 1, stderr |-> Raise("Receiver error", e.msg, e.value)]
    ELSE [status |-> 1, stderr |-> Raise("Traceback", e.type, e.value)]

MainExcept ==
    /\ pc = "except"
    /\ exit_status' = main_except(exc).status
    /\ stderr' = main_except(exc).stderr
    /\ pc' = "done"
    /\ UNCHANGED <<transport, socket, recv_locals, reqs, frame_start, raw_header,
                   header_locals, payload, frame_count, decoded, stdout, exc>>

\* lines 121-124: Ctrl-C while run_receiver runs
KeyboardInterrupt ==
    /\ pc \in {"loop", "recv_exact", "parse_header", "imdecode"}
    /\ stdout' = Append(stdout, <<"Interrupted">>)
    /\ exit_status' = 0
    /\ pc' = "done"
    /\ UNCHANGED <<transport, socket, recv_locals, reqs, frame_start, raw_header,
                   header_locals, payload, frame_count, decoded, exc, stderr>>

Next ==
    \/ CallRecvHeader
    \/ RecvData
    \/ RecvClosed
    \/ RecvError
    \/ RecvReturnHeader
    \/ RecvReturnPayload
    \/ ParseHeaderOk
    \/ ParseHeaderRaises
    \/ ImdecodeFails
    \/ ImdecodeRaises
    \/ ShowQuit
    \/ ShowNext
    \/ MainExcept
    \/ KeyboardInterrupt

Spec == Init /\ [][Next]_vars

\* line 24: the blocking sock.recv comes back: with data, with b"" or with an
\* error
RecvAnswer == RecvData \/ RecvClosed \/ RecvError

\* lines 23, 29: the loop test fails and recv_exact returns
RecvReturn == RecvReturnHeader \/ RecvReturnPayload

\* a sock.recv is pending
RecvPending == pc = "recv_exact" /\ remaining > 0

\* the loop of recv_exact is over and its return is due
ReturnPending == pc = "recv_exact" /\ ~(remaining > 0)

\* The transport answers every sock.recv: weak fairness of RecvAnswer, that is
\* WF_vars(RecvAnswer) with ENABLED <<RecvAnswer>>_vars written out as
\* RecvPending (a pending read can be answered with data while the wire has
\* some, and with b"" when it has none).
TransportAnswers == []<>(~RecvPending) \/ []<><<RecvAnswer>>_vars

\* The interpreter runs recv_exact to its return: weak fairness of RecvReturn,
\* that is WF_vars(RecvReturn) with ENABLED <<RecvReturn>>_vars written out.
ReceiverRuns == []<>(~ReturnPending) \/ []<><<RecvReturn>>_vars

\* the interpreter does not stop at the head of the loop (line 57) or in front
\* of main's except clause (line 125)
InterpreterRuns == WF_vars(CallRecvHeader) /\ WF_vars(MainExcept)

\* the receiver under a transport that answers every sock.recv
SpecFair ==
    Init /\ [][Next]_vars /\ TransportAnswers /\ ReceiverRuns /\ InterpreterRuns

\* ------------------------------------------------------------ vocabulary
Last(q) == q[Len(q)]

\* the frame record a valid frame on the wire stands for
Record(h) ==
    [source_id |-> h.source_id, frame_id |-> h.frame_id,
     timestamp_us |-> h.timestamp_us, payload |-> h.body]

RECURSIVE FrameOffset(_)
\* the stream offset at which frame k of the wire begins
FrameOffset(k) ==
    IF k <= 1 THEN 0
    ELSE FrameOffset(k - 1) + HEADER_SIZE + BLen(sent[k - 1].body)

\* the frame the current decode step began at (none once the wire is used up)
CurFrames == { k \in 1..Len(sent) : FrameOffset(k) = frame_start }

Interrupted == stdout # <<>> /\ Last(stdout) = <<"Interrupted">>

\* the header of frame k has been received in the current decode step
HeaderIn(k) ==
    /\ k \in CurFrames
    /\ pos >= frame_start + HEADER_SIZE
    /\ raw_header = BSlice(wire, frame_start, HEADER_SIZE)
    /\ phase = "payload" \/ pc \in {"parse_header", "except", "done"}

\* ... and parse_header has run on it
Parsed(k) == HeaderIn(k) /\ pc # "parse_header" /\ ~Interrupted

NoPayloadRead ==
    /\ phase # "payload"
    /\ \A i \in 1..Len(reqs) : reqs[i].phase = "header"

Oversize(h) ==
    /\ h.magic = STREAM_MAGIC
    /\ h.version = STREAM_VERSION
    /\ h.codec = STREAM_CODEC_JPEG
    /\ h.payload_size > MAX_PAYLOAD_SIZE

\* the error of the earliest failing check, in the order magic, version,
\* codec, payload size
FirstFailure(h) ==
    IF h.magic # STREAM_MAGIC THEN Raise("ValueError", "bad magic", h.magic)
    ELSE IF h.version # STREAM_VERSION THEN Raise("ValueError", "unsupported version", h.version)
    ELSE IF h.codec # STREAM_CODEC_JPEG THEN Raise("ValueError", "unsupported codec", h.codec)
    ELSE Raise("ValueError", "payload too large", h.payload_size)

\* ------------------------------------------------------------------ claims

\* C1: a valid header (magic, version 1, codec 1, payload_size up to and
\* including MAX_PAYLOAD_SIZE) followed by payload_size bytes decodes: the
\* header is accepted with source_id, frame_id, timestamp_us and payload_size
\* equal to the header's fields, no protocol error is raised, a closed stream
\* is reported only when bytes of the frame are missing, and the completed
\* step holds the payload bytes that followed the header, in order.
C1_ValidFrameDecodes ==
    \A k \in CurFrames :
        LET h == sent[k]
        IN  IsValid(h) =>
              /\ Parsed(k) =>
                    /\ phase = "payload"
                    /\ source_id = h.source_id
                    /\ frame_id = h.frame_id
                    /\ timestamp_us = h.timestamp_us
                    /\ payload_size = h.payload_size
              /\ exc.type \notin {"ValueError", "struct.error"}
              /\ exc = PeerClosed => pos < FrameOffset(k + 1)
              /\ pc = "imdecode" =>
                    /\ payload = h.body
                    /\ BLen(payload) = h.payload_size
                    /\ decoded # <<>>
                    /\ Last(decoded) = Record(h)

C1_Witness ==
    /\ pc = "imdecode"
    /\ Len(decoded) = 2
    /\ payload_size = MAX_PAYLOAD_SIZE
    /\ BLen(payload) = MAX_PAYLOAD_SIZE
    /\ source_id = 65535

\* C2: a header with payload_size > MAX_PAYLOAD_SIZE (magic, version and codec
\* valid) is rejected with "payload too large"; no payload read is ever issued
\* for it and the stream position stays 28 bytes past the start of the frame.
C2_OversizeRejected ==
    \A k \in CurFrames :
        LET h == sent[k]
        IN  Oversize(h) =>
              /\ NoPayloadRead
              /\ pos <= frame_start + HEADER_SIZE
              /\ Parsed(k) =>
                    /\ exc = Raise("ValueError", "payload too large", h.payload_size)
                    /\ pos = frame_start + HEADER_SIZE
                    /\ pc \in {"except", "done"}
                    /\ pc = "done" => exit_status = 1

C2_Witness ==
    /\ pc = "done"
    /\ exit_status = 1
    /\ exc = Raise("ValueError", "payload too large", MAX_PAYLOAD_SIZE + 1)
    /\ frame_start > 0
    /\ pos = frame_start + HEADER_SIZE
    /\ pos < BLen(wire)

\* C3: a header whose magic is not STREAM_MAGIC is rejected with "bad magic"
\* and the offending value, whatever its other fields, and no payload byte is
\* consumed.
C3_BadMagicRejected ==
    \A k \in CurFrames :
        LET h == sent[k]
        IN  h.magic # STREAM_MAGIC =>
              /\ NoPayloadRead
              /\ pos <= frame_start + HEADER_SIZE
              /\ Parsed(k) =>
                    /\ exc = Raise("ValueError", "bad magic", h.magic)
                    /\ pc \in {"except", "done"}

C3_Witness ==
    /\ pc = "except"
    /\ exc.msg = "bad magic"
    /\ \E k \in CurFrames :
          /\ sent[k].version # STREAM_VERSION
          /\ sent[k].codec # STREAM_CODEC_JPEG
          /\ sent[k].payload_size > MAX_PAYLOAD_SIZE

\* C4: the checks run in the order magic, version, codec, payload size and
\* stop at the first that fails: the error raised is that of the earliest
\* failing check, and a payload read is issued only for a header that passed
\* all four.
C4_ValidationOrder ==
    \A k \in CurFrames :
        LET h == sent[k]
        IN  /\ (Parsed(k) /\ ~IsValid(h)) => exc = FirstFailure(h)
            /\ (HeaderIn(k) /\ ~NoPayloadRead) => IsValid(h)

C4_Witness ==
    /\ pc = "except"
    /\ exc.msg = "unsupported version"
    /\ \E k \in CurFrames :
          /\ sent[k].magic = STREAM_MAGIC
          /\ sent[k].codec # STREAM_CODEC_JPEG
          /\ sent[k].payload_size > MAX_PAYLOAD_SIZE

RECURSIVE RefDecode(_)
\* what decoding a byte stream that ends after s yields, read off the bytes
\* alone: the frame records in order, and the failure that ends the decoding
RefDecode(s) ==
    IF BLen(s) < HEADER_SIZE
    THEN [frames |-> <<>>, failure |-> PeerClosed]
    ELSE LET r == parse_header(BTake(s, HEADER_SIZE))
         IN  IF ~r.ok THEN [frames |-> <<>>, failure |-> r.exc]
             ELSE IF BLen(s) < HEADER_SIZE + r.payload_size
             THEN [frames |-> <<>>, failure |-> PeerClosed]
             ELSE LET rest == RefDecode(BDrop(s, HEADER_SIZE + r.payload_size))
                  IN  [frames |-> << [source_id |-> r.source_id, frame_id |-> r.frame_id,
                                      timestamp_us |-> r.timestamp_us,
                                      payload |-> BSlice(s, HEADER_SIZE, r.payload_size)] >>
                                  \o rest.frames,
                       failure |-> rest.failure]

\* C5: the decode outcomes depend on the bytes delivered and not on how the
\* transport cut them into chunks: under every delivery pattern, whenever a
\* decode step completes the records produced so far are those of the byte
\* sequence delivered so far, and when the decoding ends with a closed stream
\* or a protocol error, the records and the failure are those of the delivered
\* byte sequence.
C5_ChunkingIndependence ==
    /\ exc.type # "struct.error"
    /\ pc = "imdecode" => decoded = RefDecode(BTake(wire, pos)).frames
    /\ (exc = PeerClosed \/ exc.type = "ValueError") =>
          /\ decoded = RefDecode(BTake(wire, pos)).frames
          /\ exc = RefDecode(BTake(wire, pos)).failure

C5_Witness ==
    /\ split = <<3, 40>>
    /\ exc = PeerClosed
    /\ Len(decoded) = 2
    /\ decoded[1].payload # <<>>
    /\ pos = BLen(wire)

AllValid == \A i \in 1..Len(sent) : IsValid(sent[i])

\* C6: from a concatenation of valid frames the decode steps produce one
\* record per frame, in wire order, each equal to its input; after each step
\* the stream is at the next header boundary, after the last at end of input;
\* frame_id and source_id are free (repeated and decreasing frame_ids pass).
C6_SequentialFraming ==
    /\ Len(decoded) <= Len(sent)
    /\ \A i \in 1..Len(decoded) : decoded[i] = Record(sent[i])
    /\ pc \in {"imdecode", "loop"} => pos = FrameOffset(Len(decoded) + 1)
    /\ AllValid =>
          /\ exc.type \notin {"ValueError", "struct.error"}
          /\ (exc = PeerClosed /\ pos = BLen(wire)) => Len(decoded) = Len(sent)
          /\ (pc = "imdecode" /\ Len(decoded) = Len(sent)) => pos = BLen(wire)

C6_Witness ==
    /\ pc = "imdecode"
    /\ Len(decoded) = 2
    /\ Len(sent) = 2
    /\ decoded[2].frame_id < decoded[1].frame_id
    /\ pos = BLen(wire)

\* the last sock.recv of the decode step returned b""
ClosedRead == reqs # <<>> /\ Last(reqs).got = 0
ClosedMidPayload == ClosedRead /\ Last(reqs).phase = "payload"
ClosedMidHeader == ClosedRead /\ Last(reqs).phase = "header" /\ pos > frame_start
ClosedAtBoundary == ClosedRead /\ Last(reqs).phase = "header" /\ pos = frame_start

\* what the caller of main() sees
Report == [exit_status |-> exit_status, stderr |-> stderr]
PeerClosedReport ==
    [exit_status |-> 1,
     stderr |-> Raise("Receiver error", "peer closed the connection", 0)]

\* C7 (amended): a stream that closes after a valid header and before the
\* payload is complete ends the decoding with ConnectionError("peer closed the
\* connection") and the frame is not delivered; main() reports it with exit
\* status 1 and "Receiver error: peer closed the connection", which is also
\* exactly what it reports when the stream closes at a frame boundary.
C7_MidPayloadCloseReported ==
    /\ ClosedMidPayload =>
          /\ exc = PeerClosed
          /\ pc \in {"except", "done"}
          /\ FrameOffset(Len(decoded) + 1) = frame_start
          /\ pc = "done" => Report = PeerClosedReport
    /\ ClosedAtBoundary =>
          /\ exc = PeerClosed
          /\ pc \in {"except", "done"}
          /\ pc = "done" => Report = PeerClosedReport

C7_Witness ==
    /\ ClosedMidPayload
    /\ pc = "done"
    /\ Len(decoded) = 1
    /\ pos > frame_start + HEADER_SIZE

\* C7 as stated: the mid-payload close is reported as a closed connection, and
\* a close at a frame boundary is reported differently.
C7_Original ==
    /\ (ClosedMidPayload /\ pc = "done") => Report = PeerClosedReport
    /\ (ClosedAtBoundary /\ pc = "done") => Report # PeerClosedReport

\* C8: a stream that closes after 0 < k < 28 header bytes ends the decoding
\* with ConnectionError("peer closed the connection"), not with a parse or
\* protocol error: parse_header only ever runs on 28 bytes, and no payload read
\* begins.
C8_PartialHeaderClose ==
    /\ pc = "parse_header" => BLen(raw_header) = HEADER_SIZE
    /\ exc.type # "struct.error"
    /\ ClosedMidHeader =>
          /\ pos < frame_start + HEADER_SIZE
          /\ exc = PeerClosed
          /\ pc \in {"except", "done"}
          /\ NoPayloadRead
          /\ pc = "done" => Report = PeerClosedReport

C8_Witness ==
    /\ ClosedMidHeader
    /\ pc = "done"
    /\ frame_start > 0
    /\ pos = frame_start + 27

Failed == exc.type \in {"ConnectionError", "OSError", "ValueError"}

\* C9: a failure is terminal: once a decode step has failed with a closed
\* stream, a transport error or a protocol error, the only step left is main's
\* handler: no further sock.recv is issued, the stream position does not move,
\* no further frame is produced and the process ends with status 1.
C9_FailureTerminal ==
    [][Failed => /\ pos' = pos
                 /\ segIdx' = segIdx
                 /\ segLeft' = segLeft
                 /\ reqs' = reqs
                 /\ decoded' = decoded
                 /\ frame_count' = frame_count
                 /\ exc' = exc
                 /\ pc' = "done"
                 /\ exit_status' = 1]_vars

C9_Witness ==
    /\ pc = "done"
    /\ exit_status = 1
    /\ exc.msg = "bad magic"
    /\ Len(sent) = 2
    /\ IsValid(sent[2])
    /\ pos = HEADER_SIZE
    /\ decoded = <<>>

\* C10: recv_exact(sock, n) returns only with exactly n bytes, and they are
\* the next n bytes of the stream in delivery order; while it runs, the bytes
\* accumulated are the n - remaining bytes delivered since the call.
C10_RecvExactReturnsExactly ==
    /\ pc = "parse_header" =>
          /\ size = HEADER_SIZE
          /\ BLen(raw_header) = size
          /\ raw_header = BSlice(wire, call_start, size)
    /\ pc = "imdecode" =>
          /\ size = payload_size
          /\ BLen(payload) = size
          /\ payload = BSlice(wire, call_start, size)
    /\ pc = "recv_exact" =>
          /\ remaining >= 0
          /\ BLen(join(chunks)) = size - remaining
          /\ join(chunks) = BSlice(wire, call_start, size - remaining)

C10_Witness ==
    /\ pc = "imdecode"
    /\ size = 4
    /\ Len(chunks) = 4
    /\ Len(payload) = 4

\* C11: every sock.recv of recv_exact asks for exactly the bytes still
\* outstanding, n less the bytes accumulated before it, a count from 1 to n,
\* and gets no more than it asked for; the call never takes the stream past
\* call_start + n, and a completed decode step leaves the stream 28 +
\* payload_size bytes past the start of the frame.
C11_RequestsRemaining ==
    /\ (reqs # <<>> /\ Last(reqs).phase = phase) =>
          LET r == Last(reqs)
              got == IF r.got > 0 THEN r.got ELSE 0
          IN  /\ r.requested = size - (BLen(join(chunks)) - got)
              /\ r.requested = remaining + got
              /\ r.requested >= 1
              /\ r.requested <= size
              /\ r.got <= r.requested
    /\ phase \in {"header", "payload"} => pos <= call_start + size
    /\ pc = "imdecode" => pos = frame_start + HEADER_SIZE + payload_size

C11_Witness ==
    /\ pc = "imdecode"
    /\ split = <<1>>
    /\ Len(decoded) = 2
    /\ payload_size = 4
    /\ Len(reqs) > 6
    /\ Last(reqs).requested < size

\* the step is a sock.recv that returned b""
EmptyRead == Len(reqs') = Len(reqs) + 1 /\ Last(reqs').got = 0

\* C12: a sock.recv that returns b"" while bytes are outstanding makes
\* recv_exact raise ConnectionError("peer closed the connection") in that very
\* step: the bytes accumulated so far are returned to nobody (neither the
\* header nor the payload nor a frame is assigned), and afterwards no further
\* sock.recv is issued, so the read is not retried.
C12_EmptyReadRaises ==
    /\ [](ClosedRead => /\ exc = PeerClosed
                        /\ pc \in {"except", "done"}
                        /\ remaining > 0)
    /\ [][EmptyRead => /\ remaining > 0
                       /\ exc' = PeerClosed
                       /\ pc' = "except"
                       /\ chunks' = chunks
                       /\ raw_header' = raw_header
                       /\ payload' = payload
                       /\ decoded' = decoded]_vars
    /\ [][ClosedRead => /\ reqs' = reqs
                        /\ pos' = pos
                        /\ raw_header' = raw_header
                        /\ payload' = payload
                        /\ decoded' = decoded
                        /\ pc' = "done"]_vars

C12_Witness ==
    /\ ClosedRead
    /\ pc = "done"
    /\ phase = "payload"
    /\ chunks # <<>>
    /\ remaining > 0
    /\ payload # join(chunks)
    /\ Report = PeerClosedReport

\* the header bytes b with the bytes of field i replaced by the big-endian
\* bytes of v
WithField(b, i, v) ==
    LET off == FieldOffset(HEADER_FORMAT, i)
    IN  SubSeq(b, 1, off) \o ToBigEndian(v, HEADER_FORMAT[i])
        \o SubSeq(b, off + HEADER_FORMAT[i] + 1, Len(b))

\* the header raw with flags (field 4) set to fl and reserved (field 6) to rs
WithFlagsReserved(raw, fl, rs) ==
    FromBytes(WithField(WithField(BBytes(raw), 4, fl), 6, rs))

\* values of a 16-bit field: both ends, each byte alone, both bytes set
FieldValues16 == {0, 1, 256, 32769, 65535}

\* C13: flags (field 4) and reserved (field 6) are not validated and not
\* returned: a header that differs from the received one in these two fields
\* only is parsed to the same outcome, the same acceptance with the same
\* source_id, frame_id, timestamp_us and payload_size or the same error.
C13_FlagsReservedIgnored ==
    pc = "parse_header" =>
        LET outcome_here == parse_header(raw_header)
        IN  \A fl \in FieldValues16 : \A rs \in FieldValues16 :
                LET other == WithFlagsReserved(raw_header, fl, rs)
                    f == unpack(HEADER_FORMAT, other)
                IN  /\ f[4] = fl
                    /\ f[6] = rs
                    /\ parse_header(other) = outcome_here

C13_Witness ==
    /\ pc = "parse_header"
    /\ unpack(HEADER_FORMAT, raw_header)[4] = 32769
    /\ unpack(HEADER_FORMAT, raw_header)[6] = 42405
    /\ parse_header(raw_header).ok
    /\ parse_header(raw_header) = parse_header(WithFlagsReserved(raw_header, 0, 0))
    /\ raw_header # WithFlagsReserved(raw_header, 0, 0)

\* ---------------------------------------------------------------- round trip
\* The encoder of the wire format: a frame record becomes a header with the
\* protocol's magic, version 1 and codec 1, flags and reserved zero, the
\* payload's length as payload_size, and the payload after it.
encode(r) ==
    MkFrame(STREAM_MAGIC, STREAM_VERSION, STREAM_CODEC_JPEG, 0, r.source_id, 0,
            r.frame_id, r.timestamp_us, BLen(r.payload), r.payload)

\* records whose fields put a one in each byte of the field in turn, and
\* payloads of length 0, 1, 4 and MAX_PAYLOAD_SIZE
RoundTripRecords ==
    [source_id : {0, 1, 256, 65535},
     frame_id : {0, 1, 256, 65536, 16777216, 2147483647},
     timestamp_us : {0, 1, 256, 65536, 16909060, 2147483647},
     payload : {FrameEmpty.body, FrameOne.body, FrameGSVC.body, FrameMax.body}]

\* one encoded record per connection, and one wire no encoder produces
RoundTripSeqs == { <<encode(r)>> : r \in RoundTripRecords } \cup { <<FrameBadMagic>> }

RoundTripPatterns == { <<5>>, <<2097152>> }

InitRoundTrip ==
    /\ sent \in RoundTripSeqs
    /\ wire = Wire(sent)
    /\ split \in Splits(wire) \cap RoundTripPatterns
    /\ segIdx = 1
    /\ segLeft = split[1]
    /\ pos = 0
    /\ log_every = 1
    /\ pc = "loop"
    /\ phase = "none"
    /\ size = 0
    /\ remaining = 0
    /\ chunks = <<>>
    /\ call_start = 0
    /\ reqs = <<>>
    /\ frame_start = 0
    /\ raw_header = <<>>
    /\ source_id = 0
    /\ frame_id = 0
    /\ timestamp_us = 0
    /\ payload_size = 0
    /\ payload = <<>>
    /\ frame_count = 0
    /\ decoded = <<>>
    /\ stdout = <<>>
    /\ exc = NoExc
    /\ exit_status = -1
    /\ stderr = NoExc

SpecRoundTrip == InitRoundTrip /\ [][Next]_vars

\* C14: a frame record with a payload of at most MAX_PAYLOAD_SIZE bytes,
\* encoded into the wire format and decoded by the receiver, comes back with
\* the same source_id, frame_id, timestamp_us and payload: the header is
\* accepted with the record's fields and the payload's length, and the decode
\* step yields the record and ends at the end of the encoding.
C14_RoundTrip ==
    IsValid(sent[1]) =>
        LET r == [source_id |-> sent[1].source_id, frame_id |-> sent[1].frame_id,
                  timestamp_us |-> sent[1].timestamp_us, payload |-> sent[1].body]
        IN  /\ r \in RoundTripRecords
            /\ exc.type \notin {"ValueError", "struct.error"}
            /\ pc = "parse_header" =>
                  parse_header(raw_header) =
                      [ok |-> TRUE, exc |-> NoExc, source_id |-> r.source_id,
                       frame_id |-> r.frame_id, timestamp_us |-> r.timestamp_us,
                       payload_size |-> BLen(r.payload)]
            /\ pc = "imdecode" =>
                  /\ decoded = <<r>>
                  /\ <<source_id, frame_id, timestamp_us, payload>> =
                         <<r.source_id, r.frame_id, r.timestamp_us, r.payload>>
                  /\ pos = BLen(wire)
            /\ decoded \in {<<>>, <<r>>}

C14_Witness ==
    /\ pc = "imdecode"
    /\ decoded = <<[source_id |-> 256, frame_id |-> 16777216,
                    timestamp_us |-> 65536, payload |-> FrameMax.body]>>
    /\ sent[1].flags = 0
    /\ pos = HEADER_SIZE + MAX_PAYLOAD_SIZE

\* the number of frames the loop has skipped with a warning
Warnings ==
    Cardinality({ i \in 1..Len(stdout) : stdout[i][1] = "Warning: failed to decode JPEG" })

\* C15 as stated: a payload the codec fails on is skipped and never fatal: the
\* codec's failure does not end the loop, and whenever the loop is back at its
\* head every frame delivered so far was either displayed and counted or
\* skipped with a warning, no exception is pending, and the stream is at the
\* next header boundary.
C15_Original ==
    /\ exc.type # "cv2.error"
    /\ pc = "loop" =>
          /\ frame_count + Warnings = Len(decoded)
          /\ exc = NoExc
          /\ exit_status = -1
          /\ pos = FrameOffset(Len(decoded) + 1)

\* an empty payload ends the process in the codec although a valid frame follows
C15_Witness ==
    /\ pc = "done"
    /\ exc.type = "cv2.error"
    /\ exit_status = 1
    /\ stderr.type = "Traceback"
    /\ payload_size = 0
    /\ Len(decoded) = 1
    /\ Len(sent) = 2
    /\ IsValid(sent[2])
    /\ pos = HEADER_SIZE
    /\ Warnings = 0

\* the decode step is in, or past, the payload call of a frame without payload
EmptyPayloadCall == phase = "payload" /\ payload_size = 0

\* C16: for a valid header with payload_size = 0, recv_exact(sock, 0) returns
\* b"" without a sock.recv: no payload read is ever logged, the stream stays 28
\* bytes past the start of the frame, the step cannot fail on the transport
\* (whatever the peer does after the header) and yields a record with an empty
\* payload; the next sock.recv, if any, belongs to the call for the next header.
C16_EmptyPayloadNoRead ==
    /\ []((reqs # <<>> /\ Last(reqs).phase = "payload") => payload_size > 0)
    /\ [](EmptyPayloadCall =>
             /\ size = 0
             /\ remaining = 0
             /\ chunks = <<>>
             /\ pos = frame_start + HEADER_SIZE
             /\ exc.type \notin {"ConnectionError", "OSError"}
             /\ pc \in {"imdecode", "loop", "except"} =>
                   /\ payload = <<>>
                   /\ Last(decoded).payload = <<>>
                   /\ pos = FrameOffset(Len(decoded) + 1))
    /\ [][EmptyPayloadCall =>
             /\ pos' = pos
             /\ \/ reqs' = reqs
                \/ /\ reqs' = <<>>
                   /\ phase' = "header"
                   /\ size' = HEADER_SIZE
                   /\ frame_start' = frame_start + HEADER_SIZE]_vars

C16_Witness ==
    /\ ClosedAtBoundary
    /\ frame_start = HEADER_SIZE
    /\ pos = BLen(wire)
    /\ payload_size = 0
    /\ Len(decoded) = 1
    /\ decoded[1].payload = <<>>
    /\ Len(reqs) = 1
    /\ reqs[1].requested = HEADER_SIZE

\* the number of sock.recv calls the current recv_exact has made so far
ReadsInCall ==
    Len(chunks) + (IF reqs # <<>> /\ Last(reqs).got <= 0 /\ Last(reqs).phase = phase
                   THEN 1 ELSE 0)

\* C17: recv_exact(sock, n) makes at most n calls of sock.recv: each one that
\* returns data lowers the outstanding count by at least one and never below
\* zero, and the call ends either by returning at zero or by raising on the
\* first read that returns nothing (or fails); when the transport answers
\* every read, a call that has begun comes to its end.
C17_RecvExactTerminates ==
    /\ [](phase \in {"header", "payload"} =>
             /\ remaining >= 0
             /\ remaining <= size
             /\ Len(chunks) <= size - remaining
             /\ ReadsInCall <= size)
    /\ [][(pc = "recv_exact" /\ chunks' # chunks) =>
             /\ remaining' < remaining
             /\ remaining' >= 0
             /\ Len(chunks') = Len(chunks) + 1
             /\ pos' = pos + (remaining - remaining')]_vars
    /\ [][(pc = "recv_exact" /\ pc' # "recv_exact") =>
             \/ remaining = 0 /\ exc' = NoExc /\ pc' \in {"parse_header", "imdecode"}
             \/ remaining > 0 /\ EmptyRead /\ exc' = PeerClosed /\ pc' = "except"
             \/ remaining > 0 /\ exc'.type = "OSError" /\ pc' = "except"
             \/ Interrupted' /\ pc' = "done"]_vars
    /\ (pc = "recv_exact") ~> (pc # "recv_exact")

C17_Witness ==
    /\ pc = "imdecode"
    /\ split = <<1>>
    /\ size = 4
    /\ Len(chunks) = size
    /\ ReadsInCall = size
    /\ remaining = 0

\* the user pressed 'q' or ESC on a displayed frame: the loop was left by
\* `break`, with nothing raised and nothing printed by main
UserQuit ==
    /\ pc = "done"
    /\ exc = NoExc
    /\ ~Interrupted
    /\ decoded # <<>>
    /\ payload = Last(decoded).payload
    /\ payload # <<>>

\* C18 as stated: the process ends with status 0 or 1; status 0 only when the
\* user stopped it (quit key on a displayed frame, or Ctrl-C); status 1 and a
\* "Receiver error" line whenever the loop ended on a closed connection, a
\* transport error or a protocol error; and the loop ends for no other reason,
\* so it goes on while valid frames arrive and nobody stops it.
C18_Original ==
    /\ exit_status \in {-1, 0, 1}
    /\ pc = "done" <=> exit_status \in {0, 1}
    /\ exit_status = 0 => (Interrupted \/ UserQuit)
    /\ (Failed /\ ~Interrupted) =>
          /\ pc \in {"except", "done"}
          /\ pc = "done" => (exit_status = 1 /\ stderr.type = "Receiver error")
    /\ pc \in {"except", "done"} => (Failed \/ Interrupted \/ UserQuit)

\* the loop has ended on a stream of valid frames that nobody stopped
C18_Witness ==
    /\ pc = "done"
    /\ AllValid
    /\ ~Interrupted
    /\ ~UserQuit
    /\ ~Failed
    /\ pos < BLen(wire)
    /\ exit_status = 1

IsStats(line) == line[1] = "frames"

\* the stats lines printed so far, in order
Stats == SelectSeq(stdout, IsStats)

====
